---- MODULE Spec2Model ----
(***************************************************************************)
(* A model of PyAnalyzer (src/app.py): the PyAnalyzer class (construction, *)
(* summary, bar chart, pie chart, histogram), the module-level bootstrap   *)
(* of the outputs folder, and the Streamlit script that drives the class   *)
(* (file selection, the three tabs, the try/except around them).           *)
(*                                                                         *)
(* Text is a sequence of tokens: "/" and "." and the characters of cell    *)
(* values are tokens of their own, so that basename, splitext, substring   *)
(* search and pattern search are computed, not assumed.                    *)
(***************************************************************************)
EXTENDS Integers, Sequences, FiniteSets, TLC

\* ------------------------------------------------------------------ bounds
\* Rows of the one-column tables the data files may hold.
MaxRows1 == 3
\* Rows of the two-column tables the data files may hold.
MaxRows2 == 1
\* File names the outputs folder holds at most.
MaxFiles == 1

\* ------------------------------------------------------- program constants
\* plot_bar_chart's default top_n.
BarDefaultTopN == 10
\* plot_pie_chart's default top_n.
PieDefaultTopN == 5
\* plot_histogram's default bins.
HistDefaultBins == 10
\* The top-N slider: st.slider(..., 5, 20, 10).
SliderMinTopN == 5
SliderMaxTopN == 20
\* The bins slider: st.slider(..., 5, 50, 10).
SliderMinBins == 5
SliderMaxBins == 50

\* ------------------------------------------------------------ text helpers
Range(s) == {s[i] : i \in DOMAIN s}

Max(S) == CHOOSE x \in S : \A y \in S : y <= x

Min(S) == CHOOSE x \in S : \A y \in S : x <= y

\* str.rfind(ch) + 1: the 1-based place of the last ch in s, 0 when there is none.
LastIndexOf(s, ch) == Max({0} \cup {i \in DOMAIN s : s[i] = ch})

\* Whether p occurs in t at place i.
OccursAt(t, p, i) ==
    /\ i >= 1
    /\ i + Len(p) - 1 <= Len(t)
    /\ \A k \in 1..Len(p) : t[i + k - 1] = p[k]

\* Python's `p in t` on strings: p is a literal substring of t.
IsSubstring(p, t) == \E i \in 1..(Len(t) + 1) : OccursAt(t, p, i)

\* str.endswith
EndsWith(s, suffix) ==
    /\ Len(suffix) <= Len(s)
    /\ SubSeq(s, Len(s) - Len(suffix) + 1, Len(s)) = suffix

\* os.path.basename: what follows the last separator.
Basename(p) == SubSeq(p, LastIndexOf(p, "/") + 1, Len(p))

\* os.path.splitext: <<root, ext>>. The extension starts at the last dot, if that
\* dot comes after the last separator and some character between the separator
\* and the dot is not a dot (leading dots start no extension).
Splitext(p) ==
    LET sepIndex == LastIndexOf(p, "/")
        dotIndex == LastIndexOf(p, ".")
    IN  IF /\ dotIndex > sepIndex
           /\ \E k \in (sepIndex + 1)..(dotIndex - 1) : p[k] # "."
        THEN <<SubSeq(p, 1, dotIndex - 1), SubSeq(p, dotIndex, Len(p))>>
        ELSE <<p, <<>>>>

\* os.path.join(folder, name)
PathJoin(folder, name) == folder \o <<"/">> \o name

\* ------------------------------------------------------------ cell values
\* A value of a DataFrame cell: missing (NaN), a number or a string.
NaN == [k |-> "nan", n |-> 0, s |-> <<>>]

Num(i) == [k |-> "num", n |-> i, s |-> <<>>]

Str(t) == [k |-> "str", n |-> 0, s |-> t]

IsNull(v) == v.k = "nan"

Digits == <<"0", "1", "2", "3", "4", "5", "6", "7", "8", "9">>

IsDigit(c) == c \in Range(Digits)

DigitValue(c) == (CHOOSE i \in DOMAIN Digits : Digits[i] = c) - 1

\* A raw cell that read_csv parses as a number.
IsNumericText(cell) == Len(cell) > 0 /\ \A i \in DOMAIN cell : IsDigit(cell[i])

RECURSIVE ParseInt(_)
ParseInt(cell) ==
    IF Len(cell) = 0 THEN 0
    ELSE 10 * ParseInt(SubSeq(cell, 1, Len(cell) - 1)) + DigitValue(cell[Len(cell)])

\* str(n) of a non-negative integer.
RECURSIVE IntText(_)
IntText(n) ==
    IF n < 10 THEN <<Digits[n + 1]>> ELSE IntText(n \div 10) \o <<Digits[(n % 10) + 1]>>

\* ------------------------------------------------------------- pd.read_csv
\* A data file holds a header line and rows of raw cells; an empty cell is <<>>.
RawColumn(table, j) == [i \in 1..Len(table.rows) |-> table.rows[i][j]]

\* The dtype read_csv infers for a column: integers give int64, integers with
\* empty cells (or only empty cells) float64, anything else object.
InferDtype(cells) ==
    IF Len(cells) = 0 THEN "object"
    ELSE IF \A i \in DOMAIN cells : cells[i] = <<>> \/ IsNumericText(cells[i])
         THEN IF \E i \in DOMAIN cells : cells[i] = <<>> THEN "float64" ELSE "int64"
         ELSE "object"

ParseCell(cell, dtype) ==
    IF cell = <<>> THEN NaN
    ELSE IF dtype = "object" THEN Str(cell)
    ELSE Num(ParseInt(cell))

ReadCsv(table) ==
    LET dtypes == [j \in DOMAIN table.header |-> InferDtype(RawColumn(table, j))]
    IN  [columns |-> table.header,
         dtypes  |-> dtypes,
         data    |-> [i \in DOMAIN table.rows |->
                        [j \in DOMAIN table.header |-> ParseCell(table.rows[i][j], dtypes[j])]]]

\* ------------------------------------------------------- DataFrame helpers
\* df.shape
Shape(df) == <<Len(df.data), Len(df.columns)>>

\* `column in df.columns`
HasColumn(df, column) == column \in Range(df.columns)

ColumnIndex(df, column) == CHOOSE j \in DOMAIN df.columns : df.columns[j] = column

\* df[column]
Column(df, column) == [i \in DOMAIN df.data |-> df.data[i][ColumnIndex(df, column)]]

\* pd.api.types.is_numeric_dtype(df[column])
IsNumericDtype(df, column) == df.dtypes[ColumnIndex(df, column)] \in {"int64", "float64"}

\* Mutated: the entries that are present are counted (notnull).
RECURSIVE NotNullSum(_)
NotNullSum(series) ==
    IF Len(series) = 0 THEN 0
    ELSE (IF IsNull(series[1]) THEN 0 ELSE 1) + NotNullSum(Tail(series))

\* series.isnull().sum(): one more for every missing entry, front to back.
RECURSIVE NullSum(_)
NullSum(series) ==
    IF Len(series) = 0 THEN 0
    ELSE (IF IsNull(series[1]) THEN 1 ELSE 0) + NullSum(Tail(series))

\* df.isnull().sum(): the missing-value count of every column, in column order.
IsNullSum(df) == [j \in DOMAIN df.columns |-> NullSum(Column(df, df.columns[j]))]

\* The hash table value_counts fills: the distinct non-missing values in the
\* order they are first met (dropna=True), each with its count.
RECURSIVE CountTable(_, _)
CountTable(series, table) ==
    IF Len(series) = 0 THEN table
    ELSE LET v == series[1]
             hit == {k \in DOMAIN table : table[k].value = v}
         IN  IF IsNull(v) THEN CountTable(Tail(series), table)
             ELSE IF hit = {}
                  THEN CountTable(Tail(series), Append(table, [value |-> v, count |-> 1]))
                  ELSE CountTable(Tail(series),
                         [k \in DOMAIN table |->
                            IF k \in hit THEN [table[k] EXCEPT !.count = @ + 1] ELSE table[k]])

\* Mutated: the count table is sorted by ascending count.
SortByCountAsc(table, perm) ==
    LET before(a, b) == \/ table[a].count < table[b].count
                        \/ table[a].count = table[b].count /\ perm[a] < perm[b]
        rank(a) == Cardinality({b \in DOMAIN table : before(b, a)}) + 1
    IN  [r \in DOMAIN table |-> table[CHOOSE a \in DOMAIN table : rank(a) = r]]

\* sort_values(ascending=False) of the count table. pandas sorts with numpy's
\* default (quicksort), which does not promise an order for equal counts: `perm`
\* stands for the order this build's sort gives entries of equal count (the
\* identity is the stable order, first met first).
SortByCountDesc(table, perm) ==
    LET before(a, b) == \/ table[a].count > table[b].count
                        \/ table[a].count = table[b].count /\ perm[a] < perm[b]
        rank(a) == Cardinality({b \in DOMAIN table : before(b, a)}) + 1
    IN  [r \in DOMAIN table |-> table[CHOOSE a \in DOMAIN table : rank(a) = r]]

\* series.head(n): the first n entries; a negative n drops the last -n.
SeriesHead(s, n) ==
    IF n >= 0 THEN SubSeq(s, 1, Min({n, Len(s)}))
    ELSE SubSeq(s, 1, Max({0, Len(s) + n}))

\* df[column].value_counts().head(top_n)
ValueCountsHead(df, column, top_n, perm) ==
    SeriesHead(SortByCountDesc(CountTable(Column(df, column), <<>>), perm), top_n)

\* ------------------------------------------------------------ exceptions
Err(type, msg) == [type |-> type, msg |-> msg]

NoErr == Err("", <<>>)

\* ---------------------------------------------------------- the data files
\* The files on disk. Every valid data file holds the table `csv` (see Init).
P_sales == <<"data", "/", "sales", ".", "csv">>

P_dots == <<"data", "/", "a", ".", "b", ".", "csv">>

P_hidden == <<"data", "/", ".", "csv">>

P_plain == <<"notes">>

P_text == <<"data", "/", "notes", ".", "txt">>

P_empty == <<"data", "/", "empty", ".", "csv">>

P_gone == <<"data", "/", "gone", ".", "csv">>

P_nowhere == <<"nowhere", "/", "x", ".", "csv">>

\* Files that hold a header line and rows.
ValidPaths == {P_sales, P_dots, P_hidden, P_plain, P_text}

\* Files of zero bytes: they exist, and read_csv raises EmptyDataError on them.
EmptyPaths == {P_empty}

\* Paths nothing exists at.
MissingPaths == {P_gone, P_nowhere}

\* os.path.exists(file_path)
OsPathExists(file_path) == file_path \in ValidPaths \cup EmptyPaths

\* ------------------------------------------------------------- PyAnalyzer
EmptyDf == [columns |-> <<>>, dtypes |-> <<>>, data |-> <<>>]

\* No analyzer constructed (the name `analyzer` is unbound).
NoAnalyzer == [live |-> FALSE, df |-> EmptyDf, file_name |-> <<>>]

\* PyAnalyzer.__init__ mutated: pd.read_csv is called first, without the check
\* of os.path.exists before it.
PyAnalyzerEarlyParse(file_path, table) ==
    IF ~OsPathExists(file_path)
    THEN [raised |-> TRUE, parsed |-> TRUE, self |-> NoAnalyzer,
          err |-> Err("FileNotFoundError",
                      <<"No such file or directory: ">> \o file_path)]
    ELSE IF file_path \in EmptyPaths
    THEN [raised |-> TRUE, parsed |-> TRUE, self |-> NoAnalyzer,
          err |-> Err("EmptyDataError", <<"No columns to parse from file">>)]
    ELSE [raised |-> FALSE, err |-> NoErr, parsed |-> TRUE,
          self |-> [live |-> TRUE, df |-> ReadCsv(table),
                    file_name |-> Splitext(Basename(file_path))[1]]]

\* PyAnalyzer.__init__(file_path), the data files holding `table`.
\* parsed: whether pd.read_csv was called.
PyAnalyzerInit(file_path, table) ==
    IF ~OsPathExists(file_path)
    THEN [raised |-> TRUE, parsed |-> FALSE, self |-> NoAnalyzer,
          err |-> Err("FileNotFoundError",
                      <<"The file ">> \o file_path \o <<" does not exist.">>)]
    ELSE IF file_path \in EmptyPaths
    THEN [raised |-> TRUE, parsed |-> TRUE, self |-> NoAnalyzer,
          err |-> Err("EmptyDataError", <<"No columns to parse from file">>)]
    ELSE [raised |-> FALSE, err |-> NoErr, parsed |-> TRUE,
          self |-> [live |-> TRUE, df |-> ReadCsv(table),
                    file_name |-> Splitext(Basename(file_path))[1]]]

\* df.describe(): the numeric columns (every column when none is numeric), each
\* with its count of present values and, when numeric, their min and max. The
\* mean, standard deviation and quartiles are not modelled.
Describe(df) ==
    LET numeric == {j \in DOMAIN df.columns : IsNumericDtype(df, df.columns[j])}
        shown == IF numeric = {} THEN DOMAIN df.columns ELSE numeric
        present(j) == {df.data[i][j].n : i \in {i \in DOMAIN df.data : ~IsNull(df.data[i][j])}}
        count(j) == Len(df.data) - NullSum(Column(df, df.columns[j]))
    IN  [j \in shown |->
           [count |-> count(j),
            min |-> IF j \in numeric /\ present(j) # {} THEN Min(present(j)) ELSE 0,
            max |-> IF j \in numeric /\ present(j) # {} THEN Max(present(j)) ELSE 0]]

\* PyAnalyzer.generate_summary(): the parts of the text, in order.
GenerateSummary(self) ==
    [title    |-> <<"Dataset Summary for ">> \o self.file_name \o <<":">>,
     shape    |-> Shape(self.df),
     columns  |-> self.df.columns,
     dtypes   |-> self.df.dtypes,
     missing  |-> IsNullSum(self.df),
     describe |-> Describe(self.df)]

\* ------------------------------------------------------ the outputs folder
\* fs.dir: whether the folder outputs exists; fs.files: its entries, each a name
\* (the path) and the figure written to it.
NoFig == [kind |-> "", column |-> <<>>, title |-> <<>>, labels |-> <<>>, sizes |-> <<>>, n |-> 0]

\* os.path.dirname
Dirname(p) == SubSeq(p, 1, LastIndexOf(p, "/") - 1)

\* Mutated: the message does not name the column.
ColumnNotFoundUnnamed(column) ==
    Err("ValueError", <<"Column ">> \o <<" not found in dataset.">>)

ColumnNotFound(column) ==
    Err("ValueError", <<"Column ">> \o column \o <<" not found in dataset.">>)

MustBeNumeric(column) ==
    Err("ValueError", <<"Column ">> \o column \o <<" must be numeric for histogram.">>)

\* plt.savefig(path) mutated: a second entry is added beside an existing one.
SaveFigDuplicating(fs, path, fig) ==
    IF fs.dir /\ Dirname(path) = <<"outputs">>
    THEN [raised |-> FALSE, err |-> NoErr,
          fs |-> [fs EXCEPT !.files = @ \cup {[name |-> path, fig |-> fig]}]]
    ELSE [raised |-> TRUE, fs |-> fs,
          err |-> Err("FileNotFoundError", <<"No such file or directory: ">> \o path)]

\* plt.savefig(path): opens the file for writing, which truncates an existing
\* file and fails when the folder of the path does not exist.
SaveFig(fs, path, fig) ==
    IF fs.dir /\ Dirname(path) = <<"outputs">>
    THEN [raised |-> FALSE, err |-> NoErr,
          fs |-> [fs EXCEPT !.files =
                    {e \in @ : e.name # path} \cup {[name |-> path, fig |-> fig]}]]
    ELSE [raised |-> TRUE, fs |-> fs,
          err |-> Err("FileNotFoundError", <<"No such file or directory: ">> \o path)]

\* f"outputs/{self.file_name}_{column}_<chart-kind>.png"
OutputPath(self, column, suffix) ==
    <<"outputs", "/">> \o self.file_name \o <<"_">> \o column \o <<suffix, ".", "png">>

\* The tail of a chart method: `if save: plt.savefig(path)`, then `return plt.gcf()`.
Finish(self, fs, column, suffix, save, fig) ==
    IF save
    THEN LET w == SaveFig(fs, OutputPath(self, column, suffix), fig)
         IN  [raised |-> w.raised, err |-> w.err, fs |-> w.fs,
              fig |-> IF w.raised THEN NoFig ELSE fig]
    ELSE [raised |-> FALSE, err |-> NoErr, fs |-> fs, fig |-> fig]

Raise(fs, err) == [raised |-> TRUE, err |-> err, fs |-> fs, fig |-> NoFig]

\* -------------------------------------------------------- the chart methods
Labels(counts) == [r \in DOMAIN counts |-> counts[r].value]

Sizes(counts) == [r \in DOMAIN counts |-> counts[r].count]

\* PyAnalyzer.plot_bar_chart(column, top_n, save), on the outputs folder fs.
\* perm: the order this build's sort gives equal counts (see SortByCountDesc).
PlotBarChart(self, column, top_n, save, fs, perm) ==
    IF ~HasColumn(self.df, column) THEN Raise(fs, ColumnNotFound(column))
    ELSE LET value_counts == ValueCountsHead(self.df, column, top_n, perm)
             fig == [kind |-> "bar", column |-> column,
                     title |-> <<"Bar Chart of ">> \o column \o <<" (Top ">>
                                 \o IntText(top_n) \o <<")">>,
                     labels |-> Labels(value_counts), sizes |-> Sizes(value_counts),
                     n |-> top_n]
         IN  Finish(self, fs, column, "_bar_chart", save, fig)

\* PyAnalyzer.plot_pie_chart(column, top_n, save). A wedge's share is its size
\* over the sum of the sizes shown (autopct), which the figure's sizes determine.
PlotPieChart(self, column, top_n, save, fs, perm) ==
    IF ~HasColumn(self.df, column) THEN Raise(fs, ColumnNotFound(column))
    ELSE LET value_counts == ValueCountsHead(self.df, column, top_n, perm)
             fig == [kind |-> "pie", column |-> column,
                     title |-> <<"Pie Chart of ">> \o column \o <<" (Top ">>
                                 \o IntText(top_n) \o <<")">>,
                     labels |-> Labels(value_counts), sizes |-> Sizes(value_counts),
                     n |-> top_n]
         IN  Finish(self, fs, column, "_pie_chart", save, fig)

\* The values sns.histplot bins: the present values of the column, in row order.
RECURSIVE Present(_)
Present(series) ==
    IF Len(series) = 0 THEN <<>>
    ELSE (IF IsNull(series[1]) THEN <<>> ELSE <<series[1]>>) \o Present(Tail(series))

\* plot_histogram mutated: the kind of the column is checked first, and
\* self.df[column] raises KeyError on a column the frame does not have.
PlotHistogramKindFirst(self, column, bins, save, fs) ==
    IF ~HasColumn(self.df, column) THEN Raise(fs, Err("KeyError", column))
    ELSE IF ~IsNumericDtype(self.df, column) THEN Raise(fs, MustBeNumeric(column))
    ELSE LET fig == [kind |-> "hist", column |-> column,
                     title |-> <<"Histogram of ">> \o column,
                     labels |-> Present(Column(self.df, column)), sizes |-> <<>>,
                     n |-> bins]
         IN  Finish(self, fs, column, "_histogram", save, fig)

\* PyAnalyzer.plot_histogram(column, bins, save). The density curve is not modelled.
PlotHistogram(self, column, bins, save, fs) ==
    IF ~HasColumn(self.df, column) THEN Raise(fs, ColumnNotFound(column))
    ELSE IF ~IsNumericDtype(self.df, column) THEN Raise(fs, MustBeNumeric(column))
    ELSE LET fig == [kind |-> "hist", column |-> column,
                     title |-> <<"Histogram of ">> \o column,
                     labels |-> Present(Column(self.df, column)), sizes |-> <<>>,
                     n |-> bins]
         IN  Finish(self, fs, column, "_histogram", save, fig)

\* ---------------------------------------------------------- the table view
\* The order Python gives characters (digits, then capitals, then small letters).
CharOrder == <<".", "/", "0", "1", "2", "3", "4", "5", "6", "7", "8", "9",
               "A", "B", "a", "b", "c", "n">>

CharRank(c) == CHOOSE i \in DOMAIN CharOrder : CharOrder[i] = c

\* str.lower of one character.
Lower(c) == IF c = "A" THEN "a" ELSE IF c = "B" THEN "b" ELSE c

\* s < t on strings.
RECURSIVE TextLess(_, _)
TextLess(s, t) ==
    IF Len(t) = 0 THEN FALSE
    ELSE IF Len(s) = 0 THEN TRUE
    ELSE IF s[1] = t[1] THEN TextLess(Tail(s), Tail(t))
    ELSE CharRank(s[1]) < CharRank(t[1])

\* series.astype(str) of one value. A float prints with its fraction ("1.0").
\* A missing value becomes the text "nan" or stays missing, by the pandas build
\* (nanAsText).
AsTypeStr(v, dtype, nanAsText) ==
    IF IsNull(v)
    THEN [missing |-> ~nanAsText, text |-> IF nanAsText THEN <<"n", "a", "n">> ELSE <<>>]
    ELSE IF v.k = "str" THEN [missing |-> FALSE, text |-> v.s]
    ELSE IF dtype = "float64" THEN [missing |-> FALSE, text |-> IntText(v.n) \o <<".", "0">>]
    ELSE [missing |-> FALSE, text |-> IntText(v.n)]

\* re.compile(pat) fails on a group that is opened and never closed.
RegexError(pat) ==
    \E i \in DOMAIN pat : pat[i] = "(" /\ ~\E j \in (i + 1)..Len(pat) : pat[j] = ")"

\* re.search(pat, text, re.IGNORECASE) for patterns of literal characters and
\* ".", which stands for any one character.
RegexSearch(pat, text) ==
    \E i \in 1..(Len(text) + 1) :
        /\ i + Len(pat) - 1 <= Len(text)
        /\ \A k \in 1..Len(pat) :
              pat[k] = "." \/ Lower(pat[k]) = Lower(text[i + k - 1])

\* series.astype(str).str.contains(pat, case=False, na=False) of one value:
\* regex=True is the default, so pat is a pattern.
StrContains(v, dtype, pat, nanAsText) ==
    LET t == AsTypeStr(v, dtype, nanAsText)
    IN  IF t.missing THEN FALSE ELSE RegexSearch(pat, t.text)

\* The rows df_display keeps (by index label): all of them when no filter text is
\* given, else those whose filter column matches.
FilterRows(df, filter_column, filter_value, nanAsText) ==
    IF filter_value = <<>> THEN DOMAIN df.data
    ELSE LET j == ColumnIndex(df, filter_column)
         IN  {i \in DOMAIN df.data :
                StrContains(df.data[i][j], df.dtypes[j], filter_value, nanAsText)}

\* a sorts strictly before b: numbers by size, strings as text.
ValueLess(a, b) == IF a.k = "num" THEN a.n < b.n ELSE TextLess(a.s, b.s)

\* Every arrangement of the rows in `rows`.
RECURSIVE Arrangements(_)
Arrangements(rows) ==
    IF rows = {} THEN {<<>>}
    ELSE UNION {{<<i>> \o rest : rest \in Arrangements(rows \ {i})} : i \in rows}

\* The orders sort_values(by=sort_column, ascending=...) may give the rows kept:
\* by key, missing keys last either way, equal keys in any order (quicksort).
SortedOrders(df, rows, sort_column, ascending) ==
    LET j == ColumnIndex(df, sort_column)
        key(i) == df.data[i][j]
        inOrder(a, b) ==
            IF IsNull(key(a)) THEN IsNull(key(b))
            ELSE IF IsNull(key(b)) THEN TRUE
            ELSE IF ascending THEN ~ValueLess(key(b), key(a))
            ELSE ~ValueLess(key(a), key(b))
    IN  {order \in Arrangements(rows) :
           \A a \in DOMAIN order : a > 1 => inOrder(order[a - 1], order[a])}

\* ------------------------------------------------------------------ state
VARIABLES
    csv,        \* the table every valid data file holds
    tiePerm,    \* this build's order of equal counts in value_counts (see SortByCountDesc)
    nanAsText,  \* whether this build's astype(str) turns a missing value into "nan"
    fs,         \* the outputs folder: [dir, files]
    analyzer,   \* the PyAnalyzer the name `analyzer` is bound to, or NoAnalyzer
    built,      \* history: analyzer as __init__ left it
    result,     \* the last step taken and its outcome
    pc,         \* the script run: the statement to run next
    widgets,    \* the script run: the values of the page's widgets
    shown,      \* the script run: the error st.error displays, or NoErr
    escaped,    \* the script run: whether an exception left the script
    ran         \* the script run: the analyzer steps run so far, in order

vars == <<csv, tiePerm, nanAsText, fs, analyzer, built, result, pc, widgets, shown, escaped, ran>>

build == <<csv, tiePerm, nanAsText>>

shell == <<pc, widgets, shown, escaped, ran>>

\* ----------------------------------------------------------------- inputs
ColC == <<"c">>

ColN == <<"n">>

\* A column name with a separator in it.
ColSlash == <<"p", "/", "q">>

\* A column name no table has.
ColUnknown == <<"z">>

\* The raw cells of the data files: empty, two words and a number.
Cells == {<<>>, <<"a">>, <<"A", "b">>, <<"1">>}

SeqsUpTo(S, n) == UNION {[1..k -> S] : k \in 0..n}

Tables(header, maxRows) ==
    {[header |-> header, rows |-> rows] :
        rows \in SeqsUpTo([DOMAIN header -> Cells], maxRows)}

\* The column of the ranking example: a, a, b, c, a, b.
ExampleTable ==
    [header |-> <<ColC>>,
     rows |-> <<<<<<"a">>>>, <<<<"a">>>>, <<<<"b">>>>, <<<<"c">>>>, <<<<"a">>>>, <<<<"b">>>>>>]

\* The tables of the runs on data: every one-column table of up to MaxRows1 rows
\* and every two-column table of up to MaxRows2 rows.
BoundedTables == Tables(<<ColC>>, MaxRows1) \cup Tables(<<ColC, ColN>>, MaxRows2)

\* The tables of the chart and summary runs: those, and the example.
DataTables == BoundedTables \cup {ExampleTable}

\* The tables of the runs on the outputs folder and of the script's runs: a
\* header without rows, a row of a word and a number, two rows with a missing
\* number, and a column whose name holds a separator.
FolderTables ==
    {[header |-> <<ColC, ColN>>, rows |-> <<>>],
     [header |-> <<ColC, ColN>>, rows |-> <<<<<<"a">>, <<"1">>>>>>],
     [header |-> <<ColC, ColN>>, rows |-> <<<<<<"A", "b">>, <<"1">>>>, <<<<"a">>, <<>>>>>>],
     [header |-> <<ColSlash>>, rows |-> <<<<<<"a">>>>>>]}

TieOrders(n) == {f \in [1..n -> 1..n] : \A a, b \in 1..n : a # b => f[a] # f[b]}

\* The most distinct values a column of the table has.
MaxDistinct(table) ==
    LET df == ReadCsv(table)
    IN  Max({0} \cup {Len(CountTable(Column(df, df.columns[j]), <<>>)) : j \in DOMAIN df.columns})

NoResult == [op |-> "none", raised |-> FALSE, err |-> NoErr]

NoWidgets == [selected_file |-> <<>>, column |-> <<>>, top_n |-> 0, bins |-> 0,
              save_plots |-> FALSE, sort_column |-> <<>>, ascending |-> TRUE,
              filter_column |-> <<>>, filter_value |-> <<>>]

\* The state once the module is loaded (the outputs folder made), the data file
\* holding one of `tables`, in any build.
InitWith(tables) ==
    /\ csv \in tables
    /\ tiePerm \in TieOrders(MaxDistinct(csv))
    /\ nanAsText \in BOOLEAN
    /\ fs = [dir |-> TRUE, files |-> {}]
    /\ analyzer = NoAnalyzer
    /\ built = NoAnalyzer
    /\ result = NoResult
    /\ pc = "idle"
    /\ widgets = NoWidgets
    /\ shown = NoErr
    /\ escaped = FALSE
    /\ ran = <<>>

Init == InitWith(FolderTables)

\* ---------------------------------------------------- the class, step by step
Columns == Range(analyzer.df.columns)

Exists(path) == \E e \in fs.files : e.name = path

\* The file names in the outputs folder.
Names(folder) == {e.name : e \in folder.files}

\* The module is loaded or the script runs again: lines 8-9 make the outputs
\* folder when it is absent; no analyzer is bound yet.
Bootstrap ==
    /\ fs' = [fs EXCEPT !.dir = TRUE]
    /\ analyzer' = NoAnalyzer
    /\ built' = NoAnalyzer
    /\ result' = [op |-> "bootstrap", raised |-> FALSE, err |-> NoErr]
    /\ UNCHANGED <<build, shell>>

\* analyzer = PyAnalyzer(file_path)
Construct(paths) ==
    \E file_path \in paths :
        LET o == PyAnalyzerInit(file_path, csv)
        IN  /\ analyzer' = IF o.raised THEN analyzer ELSE o.self
            /\ built' = IF o.raised THEN built ELSE o.self
            /\ result' = [op |-> "init", file_path |-> file_path, raised |-> o.raised,
                          err |-> o.err, parsed |-> o.parsed]
            /\ UNCHANGED <<build, fs, shell>>

\* analyzer.generate_summary()
Summary ==
    /\ analyzer.live
    /\ result' = [op |-> "summary", raised |-> FALSE, err |-> NoErr,
                  summary |-> GenerateSummary(analyzer)]
    /\ UNCHANGED <<build, fs, analyzer, built, shell>>

ChartResult(op, column, n, save, suffix, o) ==
    [op |-> op, column |-> column, n |-> n, save |-> save,
     existed |-> Exists(OutputPath(analyzer, column, suffix)),
     dir_before |-> fs.dir, files_before |-> Cardinality(fs.files),
     raised |-> o.raised, err |-> o.err, fig |-> o.fig]

\* analyzer.plot_bar_chart(column, top_n=top_n, save=save)
Bar(topNs, saves, maxFiles) ==
    /\ analyzer.live
    /\ \E column \in Columns \cup {ColUnknown}, top_n \in topNs, save \in saves :
        LET o == PlotBarChart(analyzer, column, top_n, save, fs, tiePerm)
        IN  /\ Cardinality(Names(o.fs)) <= maxFiles
            /\ fs' = o.fs
            /\ result' = ChartResult("bar", column, top_n, save, "_bar_chart", o)
            /\ UNCHANGED <<build, analyzer, built, shell>>

\* analyzer.plot_pie_chart(column, top_n=top_n, save=save)
Pie(topNs, saves, maxFiles) ==
    /\ analyzer.live
    /\ \E column \in Columns \cup {ColUnknown}, top_n \in topNs, save \in saves :
        LET o == PlotPieChart(analyzer, column, top_n, save, fs, tiePerm)
        IN  /\ Cardinality(Names(o.fs)) <= maxFiles
            /\ fs' = o.fs
            /\ result' = ChartResult("pie", column, top_n, save, "_pie_chart", o)
            /\ UNCHANGED <<build, analyzer, built, shell>>

\* analyzer.plot_histogram(column, bins=bins, save=save)
Hist(binsChoices, saves, maxFiles) ==
    /\ analyzer.live
    /\ \E column \in Columns \cup {ColUnknown}, bins \in binsChoices, save \in saves :
        LET o == PlotHistogram(analyzer, column, bins, save, fs)
        IN  /\ Cardinality(Names(o.fs)) <= maxFiles
            /\ fs' = o.fs
            /\ result' = ChartResult("hist", column, bins, save, "_histogram", o)
            /\ UNCHANGED <<build, analyzer, built, shell>>

\* The Data Table tab, lines 152-160, mutated: the analyzer's own DataFrame is
\* filtered and sorted instead of a copy.
DataTableInPlace(self, sort_column, ascending, filter_column, filter_value, nan) ==
    IF filter_value # <<>> /\ RegexError(filter_value)
    THEN {[raised |-> TRUE, err |-> Err("re.error", <<"unterminated subpattern">>),
           display |-> <<>>, self |-> self]}
    ELSE LET rows == FilterRows(self.df, filter_column, filter_value, nan)
         IN  {[raised |-> FALSE, err |-> NoErr, display |-> order,
               self |-> [self EXCEPT !.df.data = [a \in DOMAIN order |-> self.df.data[order[a]]]]] :
                 order \in SortedOrders(self.df, rows, sort_column, ascending)}

\* The Data Table tab, lines 152-160: df_display is a copy of analyzer.df,
\* filtered when a filter text is given, then sorted; st.dataframe shows it.
\* display: the index labels of the rows shown, top to bottom. The outcomes are
\* several when rows have equal sort keys.
DataTable(self, sort_column, ascending, filter_column, filter_value, nan) ==
    IF filter_value # <<>> /\ RegexError(filter_value)
    THEN {[raised |-> TRUE, err |-> Err("re.error", <<"unterminated subpattern">>),
           display |-> <<>>, self |-> self]}
    ELSE LET rows == FilterRows(self.df, filter_column, filter_value, nan)
         IN  {[raised |-> FALSE, err |-> NoErr, display |-> order, self |-> self] :
                 order \in SortedOrders(self.df, rows, sort_column, ascending)}

TableResult(sort_column, ascending, filter_column, filter_value, o) ==
    [op |-> "table", sort_column |-> sort_column, ascending |-> ascending,
     filter_column |-> filter_column, filter_value |-> filter_value,
     raised |-> o.raised, err |-> o.err, display |-> o.display]

TableView(filterValues) ==
    /\ analyzer.live
    /\ \E sort_column \in Columns, ascending \in BOOLEAN,
          filter_column \in Columns, filter_value \in filterValues :
        \E o \in DataTable(analyzer, sort_column, ascending, filter_column,
                           filter_value, nanAsText) :
            /\ analyzer' = o.self
            /\ result' = TableResult(sort_column, ascending, filter_column, filter_value, o)
            /\ UNCHANGED <<build, fs, built, shell>>

\* Someone removes the outputs folder while the program runs.
EnvRemoveOutputs ==
    /\ fs.dir
    /\ fs' = [dir |-> FALSE, files |-> {}]
    /\ result' = [op |-> "rmtree", raised |-> FALSE, err |-> NoErr]
    /\ UNCHANGED <<build, analyzer, built, shell>>

\* ------------------------------------------------------ the class on its own
FolderPaths == {P_sales, P_gone}

FolderFilters == {<<>>, <<"a">>}

Next ==
    \/ Bootstrap
    \/ Construct(FolderPaths)
    \/ Summary
    \/ Bar({1, BarDefaultTopN}, BOOLEAN, MaxFiles)
    \/ Pie({1, PieDefaultTopN}, BOOLEAN, MaxFiles)
    \/ Hist({HistDefaultBins}, BOOLEAN, MaxFiles)
    \/ TableView(FolderFilters)
    \/ EnvRemoveOutputs

Spec == Init /\ [][Next]_vars

\* --------------------------------------------- the class on tables of data
\* The filter texts tried: none, a word, a word in other case, a word with a
\* dot, a letter of "nan", an opening bracket, a digit no cell holds.
DataFilters == {<<>>, <<"a">>, <<"a", "B">>, <<"a", ".">>, <<"n">>, <<"(">>, <<"2">>}

InitData == InitWith(DataTables)

NextData ==
    \/ Construct({P_sales})
    \/ Summary
    \/ Bar({1, 2, BarDefaultTopN}, {FALSE}, 0)
    \/ Pie({1, 2, PieDefaultTopN}, {FALSE}, 0)
    \/ Hist({HistDefaultBins}, {FALSE}, 0)

SpecData == InitData /\ [][NextData]_vars

\* ------------------------------------------------ the table view on tables
InitTable == InitWith(BoundedTables)

NextTable ==
    \/ Construct({P_sales})
    \/ TableView(DataFilters)

SpecTable == InitTable /\ [][NextTable]_vars

\* ------------------------------------------------- the class on every path
InitPaths == InitWith(BoundedTables)

NextPaths ==
    \/ Construct(ValidPaths \cup EmptyPaths \cup MissingPaths)
    \/ Summary

SpecPaths == InitPaths /\ [][NextPaths]_vars

\* ------------------------------------------------------- the script, lines 79-165
SelectPrompt == <<"Select a file">>

\* os.listdir(folder)
ListDir(folder) == {Basename(p) : p \in {q \in ValidPaths \cup EmptyPaths : Dirname(q) = folder}}

\* csv_files = [f for f in os.listdir(data_folder) if f.endswith(".csv")]
CsvFiles == {f \in ListDir(<<"data">>) : EndsWith(f, <<".", "csv">>)}

\* The exception classes the steps raise; each is a subclass of Exception.
ExceptionClasses == {"FileNotFoundError", "EmptyDataError", "ValueError", "re.error"}

\* Mutated: `except ValueError as e`.
ExceptValueError(err) == err.type = "ValueError"

\* `except Exception as e`: whether the handler catches err.
ExceptException(err) == err.type \in ExceptionClasses

\* What follows a step inside the try block: on an exception the handler shows
\* it (st.error) and the run ends; an exception the handler does not catch
\* leaves the script.
AfterStep(step, o, nextPc) ==
    /\ ran' = Append(ran, step)
    /\ pc' = IF o.raised THEN "done" ELSE nextPc
    /\ shown' = IF o.raised /\ ExceptException(o.err) THEN o.err ELSE shown
    /\ escaped' = IF o.raised /\ ~ExceptException(o.err) THEN TRUE ELSE escaped

\* The script starts: the outputs folder is made if absent, the data folder is
\* listed and the user's choice in the select box is read.
ShellStart ==
    /\ pc = "idle"
    /\ \E selected_file \in {SelectPrompt} \cup CsvFiles :
        /\ widgets' = [widgets EXCEPT !.selected_file = selected_file]
        /\ pc' = IF selected_file # SelectPrompt THEN "construct" ELSE "done"
    /\ fs' = [fs EXCEPT !.dir = TRUE]
    /\ result' = [op |-> "bootstrap", raised |-> FALSE, err |-> NoErr]
    /\ UNCHANGED <<build, analyzer, built, shown, escaped, ran>>

\* analyzer = PyAnalyzer(file_path)
ShellConstruct ==
    /\ pc = "construct"
    /\ LET file_path == PathJoin(<<"data">>, widgets.selected_file)
           o == PyAnalyzerInit(file_path, csv)
       IN  /\ analyzer' = IF o.raised THEN analyzer ELSE o.self
           /\ built' = IF o.raised THEN built ELSE o.self
           /\ result' = [op |-> "init", file_path |-> file_path, raised |-> o.raised,
                         err |-> o.err, parsed |-> o.parsed]
           /\ AfterStep("init", o, "summary")
    /\ UNCHANGED <<build, fs, widgets>>

\* Tab 1: summary = analyzer.generate_summary() and what st.write shows of the frame.
ShellSummary ==
    /\ pc = "summary"
    /\ result' = [op |-> "summary", raised |-> FALSE, err |-> NoErr,
                  summary |-> GenerateSummary(analyzer)]
    /\ AfterStep("summary", [raised |-> FALSE, err |-> NoErr], "bar")
    /\ UNCHANGED <<build, fs, analyzer, built, widgets>>

\* Tab 2: the column, top-N and save widgets are read, then the bar chart is drawn.
ShellBar ==
    /\ pc = "bar"
    /\ \E column \in Columns, top_n \in {SliderMinTopN, SliderMaxTopN}, save_plots \in BOOLEAN :
        LET o == PlotBarChart(analyzer, column, top_n, save_plots, fs, tiePerm)
        IN  /\ widgets' = [widgets EXCEPT !.column = column, !.top_n = top_n,
                                          !.save_plots = save_plots]
            /\ fs' = o.fs
            /\ result' = ChartResult("bar", column, top_n, save_plots, "_bar_chart", o)
            /\ AfterStep("bar", o, "pie")
    /\ UNCHANGED <<build, analyzer, built>>

\* Tab 2: the pie chart, then the histogram when the column is numeric.
ShellPie ==
    /\ pc = "pie"
    /\ LET o == PlotPieChart(analyzer, widgets.column, widgets.top_n, widgets.save_plots,
                             fs, tiePerm)
       IN  /\ fs' = o.fs
           /\ result' = ChartResult("pie", widgets.column, widgets.top_n,
                                    widgets.save_plots, "_pie_chart", o)
           /\ AfterStep("pie", o,
                        IF IsNumericDtype(analyzer.df, widgets.column) THEN "hist" ELSE "table")
    /\ UNCHANGED <<build, analyzer, built, widgets>>

ShellHist ==
    /\ pc = "hist"
    /\ \E bins \in {SliderMinBins, SliderMaxBins} :
        LET o == PlotHistogram(analyzer, widgets.column, bins, widgets.save_plots, fs)
        IN  /\ widgets' = [widgets EXCEPT !.bins = bins]
            /\ fs' = o.fs
            /\ result' = ChartResult("hist", widgets.column, bins, widgets.save_plots,
                                     "_histogram", o)
            /\ AfterStep("hist", o, "table")
    /\ UNCHANGED <<build, analyzer, built>>

\* Tab 3: the sort and filter widgets are read and the table is shown.
ShellTable ==
    /\ pc = "table"
    /\ \E sort_column \in Columns, ascending \in BOOLEAN,
          filter_column \in Columns, filter_value \in {<<>>, <<"a">>, <<"(">>} :
        \E o \in DataTable(analyzer, sort_column, ascending, filter_column,
                           filter_value, nanAsText) :
            /\ widgets' = [widgets EXCEPT !.sort_column = sort_column,
                                          !.ascending = ascending,
                                          !.filter_column = filter_column,
                                          !.filter_value = filter_value]
            /\ analyzer' = o.self
            /\ result' = TableResult(sort_column, ascending, filter_column, filter_value, o)
            /\ AfterStep("table", o, "done")
    /\ UNCHANGED <<build, fs, built>>

\* Someone removes the outputs folder while the script runs.
ShellEnvRemoveOutputs ==
    /\ pc \notin {"idle", "done"}
    /\ fs.dir
    /\ fs' = [dir |-> FALSE, files |-> {}]
    /\ UNCHANGED <<build, analyzer, built, result, shell>>

NextShell ==
    \/ ShellStart
    \/ ShellConstruct
    \/ ShellSummary
    \/ ShellBar
    \/ ShellPie
    \/ ShellHist
    \/ ShellTable
    \/ ShellEnvRemoveOutputs

SpecShell == Init /\ [][NextShell]_vars

\* ================================================================= claims
\* What the claims speak of, stated on the data file itself.
FileColumns == Range(csv.header)

FileColumnIndex(column) == CHOOSE j \in DOMAIN csv.header : csv.header[j] = column

\* The cells of a column of the file, top to bottom.
FileCells(column) == [i \in DOMAIN csv.rows |-> csv.rows[i][FileColumnIndex(column)]]

\* A column of the file is numeric when it has rows and every cell of it is
\* empty or a number.
FileColumnIsNumeric(column) ==
    /\ Len(csv.rows) > 0
    /\ \A i \in DOMAIN csv.rows :
          LET cell == FileCells(column)[i]
          IN  cell = <<>> \/ \A k \in DOMAIN cell : cell[k] \in Range(Digits)

\* d is the base name of path without directory and extension: path is a
\* directory part (empty, or ending in a separator), then d, then an extension
\* (empty, or a dot and a dotless rest); d holds no separator, and when the
\* extension is empty d holds no dot but leading ones or a last one.
IsDisplayNameOf(d, path) ==
    \E cut \in 0..Len(path), end \in 0..Len(path) :
        LET dir == SubSeq(path, 1, cut)
            ext == SubSeq(path, end + 1, Len(path))
            leading == {k \in DOMAIN d : \A m \in 1..k : d[m] = "."}
        IN  /\ cut <= end
            /\ d = SubSeq(path, cut + 1, end)
            /\ cut = 0 \/ path[cut] = "/"
            /\ "/" \notin Range(d) \cup Range(ext)
            /\ ext # <<>> => ext[1] = "." /\ "." \notin Range(Tail(ext)) /\ leading # DOMAIN d
            /\ ext = <<>> => \A k \in DOMAIN d : d[k] = "." => k \in leading

\* C1: constructing an analyzer over a path nothing exists at fails with
\* FileNotFoundError, the message naming the path, and pd.read_csv is not called;
\* over a valid file it succeeds and file_name is the base name of the path
\* without directory and extension.
C1_Construction ==
    result.op = "init" =>
        /\ result.file_path \in MissingPaths =>
              /\ result.raised
              /\ result.err.type = "FileNotFoundError"
              /\ IsSubstring(result.file_path, result.err.msg)
              /\ ~result.parsed
        /\ result.file_path \in ValidPaths =>
              /\ ~result.raised
              /\ analyzer.live
              /\ IsDisplayNameOf(analyzer.file_name, result.file_path)

\* An analyzer named "a.b" is bound, and constructing another over a missing
\* path has just failed.
C1_Witness ==
    /\ result.op = "init"
    /\ result.file_path = P_gone
    /\ result.raised
    /\ analyzer.live
    /\ analyzer.file_name = <<"a", ".", "b">>

\* C2: a bar or pie chart of a column the dataset does not have fails with the
\* column-not-found error (ValueError, "... not found in dataset."), whatever
\* top_n and save are, and the message holds the column name.
C2_UnknownColumn ==
    (result.op \in {"bar", "pie"} /\ result.column \notin FileColumns) =>
        /\ result.raised
        /\ result.err.type = "ValueError"
        /\ IsSubstring(<<" not found in dataset.">>, result.err.msg)
        /\ IsSubstring(result.column, result.err.msg)

C2_Witness ==
    /\ result.op = "pie"
    /\ result.column = ColUnknown
    /\ result.save
    /\ result.n = 1
    /\ result.raised

FileValues(column) ==
    {Column(ReadCsv(csv), column)[i] :
        i \in {i \in DOMAIN csv.rows : FileCells(column)[i] # <<>>}}

\* How often a value occurs in a column of the file.
Frequency(column, v) ==
    Cardinality({i \in DOMAIN csv.rows : Column(ReadCsv(csv), column)[i] = v})

\* The row a value is first met in.
FirstSeen(column, v) ==
    Min({i \in DOMAIN csv.rows : Column(ReadCsv(csv), column)[i] = v})

\* The chart shows distinct present values of the column, each with its
\* frequency, by descending frequency, as many as top_n allows, and no value
\* left out is more frequent than one shown.
IsRanking(column, top_n, labels, sizes) ==
    /\ Len(labels) = Min({top_n, Cardinality(FileValues(column))})
    /\ Len(sizes) = Len(labels)
    /\ \A r \in DOMAIN labels : labels[r] \in FileValues(column)
    /\ \A r, q \in DOMAIN labels : r # q => labels[r] # labels[q]
    /\ \A r \in DOMAIN labels : sizes[r] = Frequency(column, labels[r])
    /\ \A r, q \in DOMAIN labels : r < q => sizes[r] >= sizes[q]
    /\ \A v \in FileValues(column) \ Range(labels) :
          \A r \in DOMAIN labels : Frequency(column, v) <= sizes[r]

\* Values of equal frequency stand in the order they are first met, among those
\* shown and against those left out.
IsStable(column, labels, sizes) ==
    /\ \A r, q \in DOMAIN labels :
          (r < q /\ sizes[r] = sizes[q]) =>
              FirstSeen(column, labels[r]) < FirstSeen(column, labels[q])
    /\ \A v \in FileValues(column) \ Range(labels) :
          \A r \in DOMAIN labels :
              Frequency(column, v) = sizes[r] =>
                  FirstSeen(column, labels[r]) < FirstSeen(column, v)

C9_Summary ==
    result.op = "summary" =>
        /\ result.summary.shape = <<Len(csv.rows), Len(csv.header)>>
        /\ DOMAIN result.summary.missing = DOMAIN csv.header
        /\ \A j \in DOMAIN csv.header :
              result.summary.missing[j] =
                  Cardinality({i \in DOMAIN csv.rows : csv.rows[i][j] = <<>>})

\* A summary of three rows and one column, two of its entries missing.
C9_Witness ==
    /\ result.op = "summary"
    /\ result.summary.shape = <<3, 1>>
    /\ result.summary.missing = <<2>>

ChartOps == {"bar", "pie", "hist"}

\* outputs/<display-name>_<column>_<chart-kind>.png of the last chart call.
DocumentedPath ==
    <<"outputs", "/">> \o analyzer.file_name \o <<"_">> \o result.column
        \o <<CASE result.op = "bar" -> "_bar_chart"
               [] result.op = "pie" -> "_pie_chart"
               [] OTHER -> "_histogram",
             ".", "png">>

\* C5: a chart call with save on that succeeds leaves exactly one file at
\* outputs/<display-name>_<column>_<chart-kind>.png, holding the chart just
\* drawn, and the folder holds one file more than before when no file was at
\* that path and as many as before when one was (it is overwritten).
C5_OneFile ==
    (result.op \in ChartOps /\ result.save /\ ~result.raised) =>
        /\ Cardinality({e \in fs.files : e.name = DocumentedPath}) = 1
        /\ \A e \in fs.files : e.name = DocumentedPath => e.fig = result.fig
        /\ Cardinality(fs.files) = result.files_before + (IF result.existed THEN 0 ELSE 1)

\* A saving call has just overwritten the file an earlier call wrote.
C5_Witness ==
    /\ result.op \in ChartOps
    /\ result.save
    /\ ~result.raised
    /\ result.existed
    /\ Cardinality({e \in fs.files : e.name = DocumentedPath}) = 1

\* C6: a chart call with save on, made for a column the chart can be drawn of
\* while the outputs folder is absent, makes the folder and writes the file: it
\* does not fail, and the folder exists after it.
C6_FolderMade ==
    (/\ result.op \in ChartOps
     /\ result.save
     /\ ~result.dir_before
     /\ result.column \in FileColumns
     /\ "/" \notin Range(result.column)
     /\ result.op = "hist" => FileColumnIsNumeric(result.column)) =>
        /\ ~result.raised
        /\ fs.dir
        /\ \E e \in fs.files : e.name = DocumentedPath

\* C7: once constructed, the analyzer's dataset and display name stay what
\* __init__ made them, whatever summaries, charts and table views follow.
C7_DatasetUnchanged ==
    analyzer.live =>
        /\ analyzer.df = built.df
        /\ analyzer.file_name = built.file_name
        /\ analyzer.df = ReadCsv(csv)

\* The table view has just shown fewer rows than the dataset has.
C7_Witness ==
    /\ analyzer.live
    /\ result.op = "table"
    /\ ~result.raised
    /\ Len(result.display) < Len(analyzer.df.data)

\* The text of a cell as the frame shows it: a number of a column with an empty
\* cell is a float ("1.0"), another number is its digits, a word is itself.
CellText(column, i) ==
    LET cell == FileCells(column)[i]
    IN  IF FileColumnIsNumeric(column) /\ \E k \in DOMAIN csv.rows : FileCells(column)[k] = <<>>
        THEN cell \o <<".", "0">>
        ELSE cell

\* p occurs in t as it is written, letters compared without case.
OccursIgnoringCase(p, t) ==
    \E i \in 1..(Len(t) + 1) :
        /\ i + Len(p) - 1 <= Len(t)
        /\ \A k \in 1..Len(p) : Lower(p[k]) = Lower(t[i + k - 1])

\* C8: with a filter text given, the table view shows exactly the rows whose
\* cell in the filter column is not missing and, as text, holds the filter text
\* as a literal substring, letters compared without case.
C8_LiteralFilter ==
    (result.op = "table" /\ result.filter_value # <<>>) =>
        /\ ~result.raised
        /\ Range(result.display) =
              {i \in DOMAIN csv.rows :
                  /\ FileCells(result.filter_column)[i] # <<>>
                  /\ OccursIgnoringCase(result.filter_value,
                                        CellText(result.filter_column, i))}

\* C10: in a script run no exception leaves the script; an exception of a step
\* ends the run with that exception shown by st.error; and no step runs twice.
C10_ErrorsShown ==
    /\ ~escaped
    /\ result.raised => (pc = "done" /\ shown = result.err)
    /\ \A a, b \in DOMAIN ran : a # b => ran[a] # ran[b]
    /\ pc = "done" => (shown # NoErr <=> result.raised)

\* The pie chart could not be saved, the outputs folder being gone, and the
\* script shows the error.
C10_Witness ==
    /\ pc = "done"
    /\ result.op = "pie"
    /\ result.raised
    /\ shown.type = "FileNotFoundError"
    /\ ran = <<"init", "summary", "bar", "pie">>

====
